---- MODULE Spec2Model ----
(***************************************************************************)
(* Model of the tool dispatch and encoding engine of siyuan-mcp            *)
(* (src/main.rs): the tool table and the handler map built from it, the    *)
(* four argument strategies (Json, AssetUpload, PutFile, GetFile), the     *)
(* local file reads, the single outbound HTTP POST and the normalisation   *)
(* of the backend's response.                                              *)
(*                                                                         *)
(* A dispatch is an async task.  It runs from handle_tool_call up to its   *)
(* first await in one step (Call); every later await is a step of its own: *)
(* a local file read (ReadFile), the response head of the POST             *)
(* (HttpRespond) and the response body (HttpBody).  Return hands the       *)
(* finished dispatch back to the protocol adapter.                         *)
(***************************************************************************)
EXTENDS Integers, Sequences, FiniteSets, TLC

\* ---------------------------------------------------------------- bounds
\* Longest `files` array drawn as an argument.
MaxFiles == 2
\* Longest response body drawn over BodyAlphabet.
MaxBodyLen == 3

\* ------------------------------------------------- Option and Result
None == [some |-> FALSE]
Some(x) == [some |-> TRUE, v |-> x]

Ok(x) == [ok |-> TRUE, v |-> x]
Err(e) == [ok |-> FALSE, code |-> e.code, message |-> e.message]

\* rmcp's McpError::invalid_params and McpError::internal_error.
invalid_params(msg) == [code |-> "invalid_params", message |-> msg]
internal_error(msg) == [code |-> "internal_error", message |-> msg]

\* ----------------------------------------- serde_json::Value, as_* accessors
\* Each kind of value keeps its payload in a field of its own.
JNull == [t |-> "null"]
JBool(b) == [t |-> "bool", b |-> b]
\* An integer number; JFloat is a number with a fraction or an exponent, kept
\* as its text.
JNum(n) == [t |-> "num", n |-> n]
JFloat(s) == [t |-> "float", f |-> s]
JStr(s) == [t |-> "str", s |-> s]
JArr(a) == [t |-> "arr", a |-> a]
JObj(m) == [t |-> "obj", o |-> m]

\* serde_json::Map::new()
EmptyMap == [k \in {} |-> JNull]

MapInsert(m, k, x) == [y \in DOMAIN m \cup {k} |-> IF y = k THEN x ELSE m[y]]

MapGet(m, k) == IF k \in DOMAIN m THEN Some(m[k]) ELSE None

as_str(x) == IF x.t = "str" THEN Some(x.s) ELSE None
as_bool(x) == IF x.t = "bool" THEN Some(x.b) ELSE None
\* u64: a non-negative integer (the modelled integers are far below 2^64); a
\* float is never a u64.
as_u64(x) == IF x.t = "num" /\ x.n >= 0 THEN Some(x.n) ELSE None
as_array(x) == IF x.t = "arr" THEN Some(x.a) ELSE None

\* ---------------------------------------------------------- text helpers
DigitChars == <<"0", "1", "2", "3", "4", "5", "6", "7", "8", "9">>

\* u64::to_string / u16 as decimal text.
RECURSIVE DecStr(_)
DecStr(n) == IF n < 10 THEN DigitChars[n + 1]
             ELSE DecStr(n \div 10) \o DigitChars[(n % 10) + 1]

\* bool::to_string
BoolStr(b) == IF b THEN "true" ELSE "false"

\* The backquote character of the error messages.
Backquote == "<U+96>"

\* The printable ASCII characters, code 32 first.
Ascii == <<" ", "!", "\"", "#", "$", "%", "&", "'", "(", ")", "*", "+", ",", "-", ".", "/",
           "0", "1", "2", "3", "4", "5", "6", "7", "8", "9", ":", ";", "<", "=", ">", "?",
           "@", "A", "B", "C", "D", "E", "F", "G", "H", "I", "J", "K", "L", "M", "N", "O",
           "P", "Q", "R", "S", "T", "U", "V", "W", "X", "Y", "Z", "[", "\\", "]", "^", "_",
           "<U+96>", "a", "b", "c", "d", "e", "f", "g", "h", "i", "j", "k", "l", "m", "n", "o",
           "p", "q", "r", "s", "t", "u", "v", "w", "x", "y", "z", "{", "|", "}", "~">>

\* One code point as text; a code point outside printable ASCII is written
\* <U+n> with n its decimal number (U+FFFD is <U+65533>), and so is the
\* backquote, which a TLA+ string cannot hold.
CharOf(c) == IF c >= 32 /\ c <= 126 THEN Ascii[c - 31] ELSE "<U+" \o DecStr(c) \o ">"

\* A sequence of code points as a string.
RECURSIVE StrOf(_)
StrOf(cs) == IF cs = <<>> THEN "" ELSE CharOf(Head(cs)) \o StrOf(Tail(cs))

\* String::from_utf8_lossy as reqwest's Response::text applies it (no charset in
\* the modelled Content-Type values, so UTF-8): an ASCII byte is its own code
\* point, a byte that starts no UTF-8 sequence becomes U+FFFD.  The modelled
\* bodies hold no multi-byte sequence.
DecodeLossy(bytes) == [i \in 1..Len(bytes) |-> IF bytes[i] < 128 THEN bytes[i] ELSE 65533]
ValidUtf8(bytes) == \A i \in 1..Len(bytes) : bytes[i] < 128

\* -------------------------------------------- serde_json::from_str / from_slice
\* A recursive-descent reading of JSON text given as code points: whitespace,
\* null/true/false, numbers, strings, arrays and objects.  String escapes are
\* outside the modelled alphabet (no body holds a backslash), and a backslash
\* fails the parse.
PFail == [ok |-> FALSE]
POk(x, i) == [ok |-> TRUE, v |-> x, i |-> i]

JsonWs == {32, 9, 10, 13}
JsonDigits == {48, 49, 50, 51, 52, 53, 54, 55, 56, 57}

RECURSIVE SkipWs(_, _)
SkipWs(s, i) == IF i <= Len(s) /\ s[i] \in JsonWs THEN SkipWs(s, i + 1) ELSE i

MatchLit(s, i, lit) == i + Len(lit) - 1 <= Len(s) /\ SubSeq(s, i, i + Len(lit) - 1) = lit

\* The index after the run of digits starting at i.
RECURSIVE ScanDigits(_, _)
ScanDigits(s, i) == IF i <= Len(s) /\ s[i] \in JsonDigits THEN ScanDigits(s, i + 1) ELSE i

\* The value of the digits s[i..j-1].
RECURSIVE DigitsValue(_, _, _)
DigitsValue(s, i, j) == IF j <= i THEN 0 ELSE DigitsValue(s, i, j - 1) * 10 + (s[j - 1] - 48)

\* The index of the quote closing the string whose content starts at i, or 0.
RECURSIVE ScanString(_, _)
ScanString(s, i) ==
    IF i > Len(s) THEN 0
    ELSE IF s[i] = 34 THEN i
    ELSE IF s[i] < 32 \/ s[i] = 92 THEN 0
    ELSE ScanString(s, i + 1)

ParseNumber(s, i) ==
    LET neg == s[i] = 45
        a == IF neg THEN i + 1 ELSE i
    IN  IF a > Len(s) \/ s[a] \notin JsonDigits THEN PFail
        ELSE LET b == IF s[a] = 48 THEN a + 1 ELSE ScanDigits(s, a)
                 hasFrac == b <= Len(s) /\ s[b] = 46
                 c == IF hasFrac THEN ScanDigits(s, b + 1) ELSE b
                 fracOk == ~hasFrac \/ c > b + 1
                 hasExp == c <= Len(s) /\ s[c] \in {101, 69}
                 d0 == IF hasExp /\ c + 1 <= Len(s) /\ s[c + 1] \in {43, 45} THEN c + 2 ELSE c + 1
                 d == IF hasExp THEN ScanDigits(s, d0) ELSE c
                 expOk == ~hasExp \/ d > d0
                 n == DigitsValue(s, a, b)
             IN  IF ~fracOk THEN PFail
                 ELSE IF ~expOk THEN PFail
                 ELSE IF hasFrac \/ hasExp \/ (neg /\ n = 0)
                      THEN POk(JFloat(StrOf(SubSeq(s, i, d - 1))), d)
                 ELSE POk(JNum(IF neg THEN 0 - n ELSE n), b)

RECURSIVE ParseValue(_, _), ParseElements(_, _, _), ParseMembers(_, _, _)
ParseValue(s, i0) ==
    LET i == SkipWs(s, i0)
    IN  IF i > Len(s) THEN PFail
        ELSE CASE s[i] = 110 -> IF MatchLit(s, i, <<110, 117, 108, 108>>) THEN POk(JNull, i + 4) ELSE PFail
               [] s[i] = 116 -> IF MatchLit(s, i, <<116, 114, 117, 101>>) THEN POk(JBool(TRUE), i + 4) ELSE PFail
               [] s[i] = 102 -> IF MatchLit(s, i, <<102, 97, 108, 115, 101>>) THEN POk(JBool(FALSE), i + 5) ELSE PFail
               [] s[i] = 34 -> LET j == ScanString(s, i + 1)
                               IN  IF j = 0 THEN PFail
                                   ELSE POk(JStr(StrOf(SubSeq(s, i + 1, j - 1))), j + 1)
               [] s[i] = 91 -> LET j == SkipWs(s, i + 1)
                               IN  IF j <= Len(s) /\ s[j] = 93 THEN POk(JArr(<<>>), j + 1)
                                   ELSE ParseElements(s, i + 1, <<>>)
               [] s[i] = 123 -> LET j == SkipWs(s, i + 1)
                                IN  IF j <= Len(s) /\ s[j] = 125 THEN POk(JObj(EmptyMap), j + 1)
                                    ELSE ParseMembers(s, i + 1, EmptyMap)
               [] s[i] = 45 \/ s[i] \in JsonDigits -> ParseNumber(s, i)
               [] OTHER -> PFail

ParseElements(s, i, acc) ==
    LET r == ParseValue(s, i)
    IN  IF ~r.ok THEN PFail
        ELSE LET j == SkipWs(s, r.i)
             IN  IF j > Len(s) THEN PFail
                 ELSE IF s[j] = 44 THEN ParseElements(s, j + 1, Append(acc, r.v))
                 ELSE IF s[j] = 93 THEN POk(JArr(Append(acc, r.v)), j + 1)
                 ELSE PFail

\* A repeated key keeps its last value (serde_json's Map::insert).
ParseMembers(s, i, acc) ==
    LET k0 == SkipWs(s, i)
    IN  IF k0 > Len(s) THEN PFail
        ELSE IF s[k0] # 34 THEN PFail
        ELSE LET ke == ScanString(s, k0 + 1)
             IN  IF ke = 0 THEN PFail
                 ELSE LET c == SkipWs(s, ke + 1)
                      IN  IF c > Len(s) THEN PFail
                          ELSE IF s[c] # 58 THEN PFail
                          ELSE LET r == ParseValue(s, c + 1)
                               IN  IF ~r.ok THEN PFail
                                   ELSE LET acc2 == MapInsert(acc, StrOf(SubSeq(s, k0 + 1, ke - 1)), r.v)
                                            j == SkipWs(s, r.i)
                                        IN  IF j > Len(s) THEN PFail
                                            ELSE IF s[j] = 44 THEN ParseMembers(s, j + 1, acc2)
                                            ELSE IF s[j] = 125 THEN POk(JObj(acc2), j + 1)
                                            ELSE PFail

\* serde_json::from_str::<Value>: one value, then only whitespace.
from_str(text) ==
    LET r == ParseValue(text, 1)
    IN  IF r.ok /\ SkipWs(text, r.i) > Len(text) THEN Some(r.v) ELSE None

\* serde_json::from_slice::<Value>: as from_str, and bytes that are not UTF-8
\* fail the parse wherever they stand.
from_slice(bytes) == IF ValidUtf8(bytes) THEN from_str(bytes) ELSE None

\* ------------------------------------------------- base64 STANDARD.encode
B64Alphabet == <<"A", "B", "C", "D", "E", "F", "G", "H", "I", "J", "K", "L", "M", "N", "O", "P",
                 "Q", "R", "S", "T", "U", "V", "W", "X", "Y", "Z", "a", "b", "c", "d", "e", "f",
                 "g", "h", "i", "j", "k", "l", "m", "n", "o", "p", "q", "r", "s", "t", "u", "v",
                 "w", "x", "y", "z", "0", "1", "2", "3", "4", "5", "6", "7", "8", "9", "+", "/">>

\* general_purpose::STANDARD.encode: three bytes to four characters, the last
\* group padded with '='.
RECURSIVE Base64Encode(_)
Base64Encode(b) ==
    IF Len(b) = 0 THEN ""
    ELSE IF Len(b) = 1
         THEN B64Alphabet[(b[1] \div 4) + 1] \o B64Alphabet[((b[1] % 4) * 16) + 1] \o "=="
    ELSE IF Len(b) = 2
         THEN B64Alphabet[(b[1] \div 4) + 1]
              \o B64Alphabet[((b[1] % 4) * 16 + (b[2] \div 16)) + 1]
              \o B64Alphabet[((b[2] % 16) * 4) + 1] \o "="
    ELSE B64Alphabet[(b[1] \div 4) + 1]
         \o B64Alphabet[((b[1] % 4) * 16 + (b[2] \div 16)) + 1]
         \o B64Alphabet[((b[2] % 16) * 4 + (b[3] \div 64)) + 1]
         \o B64Alphabet[(b[3] % 64) + 1]
         \o Base64Encode(SubSeq(b, 4, Len(b)))

\* ------------------------------------------------------------ the tool table
\* TOOL_SPECS, in the table's order: name, endpoint and ToolKind of each entry
\* (the description and the schema take no part in a dispatch).
TOOL_SPECS == <<
    [name |-> "siyuan_notebook_ls", endpoint |-> "/api/notebook/lsNotebooks", kind |-> "Json"],
    [name |-> "siyuan_notebook_open", endpoint |-> "/api/notebook/openNotebook", kind |-> "Json"],
    [name |-> "siyuan_notebook_close", endpoint |-> "/api/notebook/closeNotebook", kind |-> "Json"],
    [name |-> "siyuan_notebook_rename", endpoint |-> "/api/notebook/renameNotebook", kind |-> "Json"],
    [name |-> "siyuan_notebook_create", endpoint |-> "/api/notebook/createNotebook", kind |-> "Json"],
    [name |-> "siyuan_notebook_remove", endpoint |-> "/api/notebook/removeNotebook", kind |-> "Json"],
    [name |-> "siyuan_notebook_get_conf", endpoint |-> "/api/notebook/getNotebookConf", kind |-> "Json"],
    [name |-> "siyuan_notebook_set_conf", endpoint |-> "/api/notebook/setNotebookConf", kind |-> "Json"],
    [name |-> "siyuan_doc_create_md", endpoint |-> "/api/filetree/createDocWithMd", kind |-> "Json"],
    [name |-> "siyuan_doc_rename", endpoint |-> "/api/filetree/renameDoc", kind |-> "Json"],
    [name |-> "siyuan_doc_rename_by_id", endpoint |-> "/api/filetree/renameDocByID", kind |-> "Json"],
    [name |-> "siyuan_doc_remove", endpoint |-> "/api/filetree/removeDoc", kind |-> "Json"],
    [name |-> "siyuan_doc_remove_by_id", endpoint |-> "/api/filetree/removeDocByID", kind |-> "Json"],
    [name |-> "siyuan_doc_move", endpoint |-> "/api/filetree/moveDocs", kind |-> "Json"],
    [name |-> "siyuan_doc_move_by_id", endpoint |-> "/api/filetree/moveDocsByID", kind |-> "Json"],
    [name |-> "siyuan_doc_get_hpath_by_path", endpoint |-> "/api/filetree/getHPathByPath", kind |-> "Json"],
    [name |-> "siyuan_doc_get_hpath_by_id", endpoint |-> "/api/filetree/getHPathByID", kind |-> "Json"],
    [name |-> "siyuan_doc_get_path_by_id", endpoint |-> "/api/filetree/getPathByID", kind |-> "Json"],
    [name |-> "siyuan_doc_get_ids_by_hpath", endpoint |-> "/api/filetree/getIDsByHPath", kind |-> "Json"],
    [name |-> "siyuan_asset_upload", endpoint |-> "/api/asset/upload", kind |-> "AssetUpload"],
    [name |-> "siyuan_block_insert", endpoint |-> "/api/block/insertBlock", kind |-> "Json"],
    [name |-> "siyuan_block_prepend", endpoint |-> "/api/block/prependBlock", kind |-> "Json"],
    [name |-> "siyuan_block_append", endpoint |-> "/api/block/appendBlock", kind |-> "Json"],
    [name |-> "siyuan_block_update", endpoint |-> "/api/block/updateBlock", kind |-> "Json"],
    [name |-> "siyuan_block_delete", endpoint |-> "/api/block/deleteBlock", kind |-> "Json"],
    [name |-> "siyuan_block_move", endpoint |-> "/api/block/moveBlock", kind |-> "Json"],
    [name |-> "siyuan_block_fold", endpoint |-> "/api/block/foldBlock", kind |-> "Json"],
    [name |-> "siyuan_block_unfold", endpoint |-> "/api/block/unfoldBlock", kind |-> "Json"],
    [name |-> "siyuan_block_get_kramdown", endpoint |-> "/api/block/getBlockKramdown", kind |-> "Json"],
    [name |-> "siyuan_block_get_children", endpoint |-> "/api/block/getChildBlocks", kind |-> "Json"],
    [name |-> "siyuan_block_transfer_ref", endpoint |-> "/api/block/transferBlockRef", kind |-> "Json"],
    [name |-> "siyuan_attr_set", endpoint |-> "/api/attr/setBlockAttrs", kind |-> "Json"],
    [name |-> "siyuan_attr_get", endpoint |-> "/api/attr/getBlockAttrs", kind |-> "Json"],
    [name |-> "siyuan_sql_query", endpoint |-> "/api/query/sql", kind |-> "Json"],
    [name |-> "siyuan_sql_flush", endpoint |-> "/api/sqlite/flushTransaction", kind |-> "Json"],
    [name |-> "siyuan_template_render", endpoint |-> "/api/template/render", kind |-> "Json"],
    [name |-> "siyuan_template_render_sprig", endpoint |-> "/api/template/renderSprig", kind |-> "Json"],
    [name |-> "siyuan_file_get", endpoint |-> "/api/file/getFile", kind |-> "GetFile"],
    [name |-> "siyuan_file_put", endpoint |-> "/api/file/putFile", kind |-> "PutFile"],
    [name |-> "siyuan_file_remove", endpoint |-> "/api/file/removeFile", kind |-> "Json"],
    [name |-> "siyuan_file_rename", endpoint |-> "/api/file/renameFile", kind |-> "Json"],
    [name |-> "siyuan_file_read_dir", endpoint |-> "/api/file/readDir", kind |-> "Json"],
    [name |-> "siyuan_export_md", endpoint |-> "/api/export/exportMdContent", kind |-> "Json"],
    [name |-> "siyuan_export_resources", endpoint |-> "/api/export/exportResources", kind |-> "Json"],
    [name |-> "siyuan_convert_pandoc", endpoint |-> "/api/convert/pandoc", kind |-> "Json"],
    [name |-> "siyuan_notify_msg", endpoint |-> "/api/notification/pushMsg", kind |-> "Json"],
    [name |-> "siyuan_notify_err", endpoint |-> "/api/notification/pushErrMsg", kind |-> "Json"],
    [name |-> "siyuan_network_forward_proxy", endpoint |-> "/api/network/forwardProxy", kind |-> "Json"],
    [name |-> "siyuan_system_boot_progress", endpoint |-> "/api/system/bootProgress", kind |-> "Json"],
    [name |-> "siyuan_system_version", endpoint |-> "/api/system/version", kind |-> "Json"],
    [name |-> "siyuan_system_current_time", endpoint |-> "/api/system/currentTime", kind |-> "Json"]
>>

\* SiyuanTool::new: the handler keeps the entry's endpoint and kind.
SiyuanTool_new(spec) == [endpoint |-> spec.endpoint, kind |-> spec.kind]

\* SiyuanServer::new with its pass over the table ending one entry early.
RECURSIVE SiyuanServer_new_SkipLast(_, _)
SiyuanServer_new_SkipLast(i, acc) ==
    IF i >= Len(TOOL_SPECS) THEN acc
    ELSE SiyuanServer_new_SkipLast(i + 1,
            [tools |-> Append(acc.tools, TOOL_SPECS[i].name),
             tool_handlers |-> MapInsert(acc.tool_handlers, TOOL_SPECS[i].name,
                                         SiyuanTool_new(TOOL_SPECS[i]))])

\* SiyuanServer::new: one pass over TOOL_SPECS, pushing each tool's name on
\* `tools` and inserting its handler under its name (HashMap::insert replaces
\* the handler of a name already present).
RECURSIVE SiyuanServer_new(_, _)
SiyuanServer_new(i, acc) ==
    IF i > Len(TOOL_SPECS) THEN acc
    ELSE SiyuanServer_new(i + 1,
            [tools |-> Append(acc.tools, TOOL_SPECS[i].name),
             tool_handlers |-> MapInsert(acc.tool_handlers, TOOL_SPECS[i].name,
                                         SiyuanTool_new(TOOL_SPECS[i]))])

\* ------------------------------------------------------ argument contracts
\* ensure_object with any other shape taken for no arguments.
ensure_object_Lenient(args) ==
    CASE args.t = "obj" -> Ok(args)
      [] OTHER -> Ok(JObj(EmptyMap))

ensure_object(args) ==
    CASE args.t = "obj" -> Ok(args)
      [] args.t = "null" -> Ok(JObj(EmptyMap))
      [] OTHER -> Err(invalid_params("arguments must be a JSON object"))

args_as_object(args) ==
    CASE args.t = "obj" -> Ok(args.o)
      [] args.t = "null" -> Ok(EmptyMap)
      [] OTHER -> Err(invalid_params("arguments must be a JSON object"))

\* required_string falling back to the empty string (unwrap_or_default).
required_string_OrDefault(map, key) ==
    LET o == IF key \in DOMAIN map THEN as_str(map[key]) ELSE None
    IN  IF o.some THEN Ok(o.v) ELSE Ok("")

required_string(map, key) ==
    LET o == IF key \in DOMAIN map THEN as_str(map[key]) ELSE None
    IN  IF o.some THEN Ok(o.v)
        ELSE Err(invalid_params("missing or invalid " \o Backquote \o key \o Backquote))

optional_string(map, key) ==
    IF key \in DOMAIN map THEN as_str(map[key]) ELSE None

\* optional_bool reading the backend's field name instead of the argument's.
optional_bool_CamelKey(map, key) ==
    IF "isDir" \in DOMAIN map THEN as_bool(map["isDir"]) ELSE None

\* optional_bool reading the string "true" as the boolean.
optional_bool_Truthy(map, key) ==
    IF key \notin DOMAIN map THEN None
    ELSE IF map[key] = JStr("true") THEN Some(TRUE)
    ELSE as_bool(map[key])

optional_bool(map, key) ==
    IF key \in DOMAIN map THEN as_bool(map[key]) ELSE None

optional_u64(map, key) ==
    IF key \in DOMAIN map THEN as_u64(map[key]) ELSE None

\* The loop of string_array skipping the entries that are no strings
\* (filter_map).
RECURSIVE StringArrayLoop_SkipBad(_, _, _)
StringArrayLoop_SkipBad(values, key, out) ==
    IF values = <<>> THEN Ok(out)
    ELSE LET item == as_str(Head(values))
         IN  StringArrayLoop_SkipBad(Tail(values), key,
                                     IF item.some THEN Append(out, item.v) ELSE out)

\* The loop of string_array: the first entry that is no string ends it.
RECURSIVE StringArrayLoop(_, _, _)
StringArrayLoop(values, key, out) ==
    IF values = <<>> THEN Ok(out)
    ELSE LET item == as_str(Head(values))
         IN  IF ~item.some
             THEN Err(invalid_params("invalid " \o Backquote \o key \o Backquote \o " entry"))
             ELSE StringArrayLoop(Tail(values), key, Append(out, item.v))

string_array(map, key) ==
    LET o == IF key \in DOMAIN map THEN as_array(map[key]) ELSE None
    IN  IF ~o.some
        THEN Err(invalid_params("missing or invalid " \o Backquote \o key \o Backquote))
        ELSE StringArrayLoop(o.v, key, <<>>)

\* ------------------------------------------------------------ multipart form
\* Form::new() is <<>>; Form::text and Form::part append one part.
FormText(form, name, value) == Append(form, [kind |-> "text", name |-> name, value |-> value])
FormPart(form, name, part) ==
    Append(form, [kind |-> "file", name |-> name, file_name |-> part.file_name, bytes |-> part.bytes])

\* The components of the local paths the model draws (std::path::Path); any
\* other modelled string holds no separator and is one normal component.
PathComponents(p) ==
    CASE p = "/tmp/a.png" -> <<"/", "tmp", "a.png">>
      [] p = "/tmp/b.txt" -> <<"/", "tmp", "b.txt">>
      [] p = "/data/a.txt" -> <<"/", "data", "a.txt">>
      [] p = "/assets/sub/" -> <<"/", "assets", "sub">>
      [] OTHER -> <<p>>

\* Path::file_name: the last component, unless it is the root or `..`.
Path_file_name(p) ==
    LET cs == PathComponents(p)
    IN  IF cs = <<>> THEN None
        ELSE IF cs[Len(cs)] \in {"/", ".."} THEN None
        ELSE Some(cs[Len(cs)])

\* file_part taking a file it cannot read for an empty one (unwrap_or_default).
file_part_IgnoreError(file_path, read) ==
    LET name == Path_file_name(file_path)
    IN  Ok([bytes |-> IF read.ok THEN read.v ELSE <<>>,
            file_name |-> IF name.some THEN name.v ELSE "file"])

\* file_part, given what tokio::fs::read returned for file_path: Ok(bytes) or
\* Err(the OS error's text).
file_part(file_path, read) ==
    IF ~read.ok
    THEN Err(internal_error("read file " \o file_path \o ": " \o read.message))
    ELSE LET name == Path_file_name(file_path)
         IN  Ok([bytes |-> read.v, file_name |-> IF name.some THEN name.v ELSE "file"])

\* ------------------------------------------------------------- strategies
\* What a handler has decided when it reaches its first await (or returns):
\* an error, local files still to read into the form, or the request to post.
PlanFail(e) == [step |-> "fail", err |-> e]
PlanRead(form, files, field) == [step |-> "read", form |-> form, files |-> files, field |-> field]
PlanSend(req) == [step |-> "send", request |-> req]

\* The request each SiyuanClient method posts to base_url + endpoint.
JsonRequest(via, endpoint, body) ==
    [via |-> via, endpoint |-> endpoint, encoding |-> "json", body |-> body]
MultipartRequest(endpoint, form) ==
    [via |-> "post_multipart_value", endpoint |-> endpoint, encoding |-> "multipart", body |-> form]

\* With every file read, the upload handlers post the form.
AfterReads(endpoint, form, files, field) ==
    IF files = <<>> THEN PlanSend(MultipartRequest(endpoint, form))
    ELSE PlanRead(form, files, field)

\* handle_asset_upload looking the directory up under the form's field name,
\* so that the default always applies.
handle_asset_upload_FixedDir(endpoint, args) ==
    LET map == args_as_object(args)
    IN  IF ~map.ok THEN PlanFail(map)
        ELSE LET dir == optional_string(map.v, "assetsDirPath")
                 assets_dir == IF dir.some THEN dir.v ELSE "/assets/"
                 files == string_array(map.v, "files")
             IN  IF ~files.ok THEN PlanFail(files)
                 ELSE AfterReads(endpoint, FormText(<<>>, "assetsDirPath", assets_dir),
                                 files.v, "file[]")

handle_asset_upload(endpoint, args) ==
    LET map == args_as_object(args)
    IN  IF ~map.ok THEN PlanFail(map)
        ELSE LET dir == optional_string(map.v, "assets_dir_path")
                 assets_dir == IF dir.some THEN dir.v ELSE "/assets/"
                 files == string_array(map.v, "files")
             IN  IF ~files.ok THEN PlanFail(files)
                 ELSE AfterReads(endpoint, FormText(<<>>, "assetsDirPath", assets_dir),
                                 files.v, "file[]")

handle_put_file(endpoint, args) ==
    LET map == args_as_object(args)
    IN  IF ~map.ok THEN PlanFail(map)
        ELSE LET path == required_string(map.v, "path")
             IN  IF ~path.ok THEN PlanFail(path)
                 ELSE LET is_dir == optional_bool(map.v, "is_dir")
                          mod_time == optional_u64(map.v, "mod_time")
                          form0 == FormText(<<>>, "path", path.v)
                          form1 == IF is_dir.some THEN FormText(form0, "isDir", BoolStr(is_dir.v))
                                   ELSE form0
                          form2 == IF mod_time.some THEN FormText(form1, "modTime", DecStr(mod_time.v))
                                   ELSE form1
                          is_dir_flag == IF is_dir.some THEN is_dir.v ELSE FALSE
                      IN  IF ~is_dir_flag
                          THEN LET file_path == required_string(map.v, "file_path")
                               IN  IF ~file_path.ok THEN PlanFail(file_path)
                                   ELSE AfterReads(endpoint, form2, <<file_path.v>>, "file")
                          ELSE AfterReads(endpoint, form2, <<>>, "file")

handle_get_file(endpoint, args) ==
    LET map == args_as_object(args)
    IN  IF ~map.ok THEN PlanFail(map)
        ELSE LET path == required_string(map.v, "path")
             IN  IF ~path.ok THEN PlanFail(path)
                 ELSE PlanSend(JsonRequest("post_json_file", endpoint,
                                           JObj(MapInsert(EmptyMap, "path", JStr(path.v)))))

\* The Json strategy posting null arguments as they came.
handle_json_Raw(endpoint, args) ==
    IF args.t \notin {"null", "obj"} THEN PlanFail(ensure_object(args))
    ELSE PlanSend(JsonRequest("post_json_value", endpoint, args))

handle_json(endpoint, args) ==
    LET body == ensure_object(args)
    IN  IF ~body.ok THEN PlanFail(body)
        ELSE PlanSend(JsonRequest("post_json_value", endpoint, body.v))

\* SiyuanTool::handle: the strategy of the handler's kind.
handle(tool, args) ==
    CASE tool.kind = "Json" -> handle_json(tool.endpoint, args)
      [] tool.kind = "AssetUpload" -> handle_asset_upload(tool.endpoint, args)
      [] tool.kind = "PutFile" -> handle_put_file(tool.endpoint, args)
      [] tool.kind = "GetFile" -> handle_get_file(tool.endpoint, args)

\* handle_tool_call forwarding a name it does not know to the backend.
handle_tool_call_Forward(handlers, name, args) ==
    LET handler == MapGet(handlers, name)
    IN  IF ~handler.some THEN handle_json("/api/" \o name, args)
        ELSE handle(handler.v, args)

\* SiyuanServer::handle_tool_call up to its first await.
handle_tool_call(handlers, name, args) ==
    LET handler == MapGet(handlers, name)
    IN  IF ~handler.some THEN PlanFail(Err(invalid_params("unknown tool: " \o name)))
        ELSE handle(handler.v, args)

\* ------------------------------------------------- response normalisation
\* is_success taking every status below 400 for a success.
is_success_Below400(status) == status >= 200 /\ status <= 399

\* StatusCode::is_success
is_success(status) == status >= 200 /\ status <= 299

\* The Content-Type header as post_json_file keeps it: its text when the
\* header is present and HeaderValue::to_str accepts it, else null.
content_type_of(header) ==
    IF header.present /\ header.visible THEN JStr(header.value) ELSE JNull

StatusBody(status, text) ==
    JObj(MapInsert(MapInsert(EmptyMap, "status", JNum(status)), "body", JStr(StrOf(text))))

Base64Wrapper(status, header, bytes) ==
    JObj(MapInsert(MapInsert(MapInsert(EmptyMap, "status", JNum(status)),
                             "content_type", content_type_of(header)),
                   "body_base64", JStr(Base64Encode(bytes))))

\* post_json_value reporting a status outside 2xx as an error
\* (error_for_status).
post_json_value_ErrorForStatus(status, bytes) ==
    LET text == DecodeLossy(bytes)
        parsed == from_str(text)
    IN  IF ~is_success(status) THEN Err(internal_error("HTTP status " \o DecStr(status)))
        ELSE IF parsed.some THEN Ok(parsed.v) ELSE Ok(StatusBody(status, text))

\* post_json_value once the response is in: the body's text parsed as JSON,
\* else {status, body}.
post_json_value(status, bytes) ==
    LET text == DecodeLossy(bytes)
        parsed == from_str(text)
    IN  IF parsed.some THEN Ok(parsed.v) ELSE Ok(StatusBody(status, text))

\* post_multipart_value once the response is in: the same normalisation.
post_multipart_value(status, bytes) ==
    LET text == DecodeLossy(bytes)
        parsed == from_str(text)
    IN  IF parsed.some THEN Ok(parsed.v) ELSE Ok(StatusBody(status, text))

\* post_json_file reporting a status outside 2xx as the caller's error.
post_json_file_StatusAsError(status, header, bytes) ==
    IF is_success(status) THEN Ok(Base64Wrapper(status, header, bytes))
    ELSE Err(invalid_params("backend answered " \o DecStr(status)))

\* post_json_file trying the body as JSON whatever the status.
post_json_file_ParseFirst(status, header, bytes) ==
    LET parsed == from_slice(bytes)
    IN  IF parsed.some THEN Ok(parsed.v)
        ELSE Ok(Base64Wrapper(status, header, bytes))

\* post_json_file once the response is in.
post_json_file(status, header, bytes) ==
    IF is_success(status) THEN Ok(Base64Wrapper(status, header, bytes))
    ELSE LET parsed == from_slice(bytes)
         IN  IF parsed.some THEN Ok(parsed.v)
             ELSE Ok(Base64Wrapper(status, header, bytes))

Normalise(via, status, header, bytes) ==
    CASE via = "post_json_value" -> post_json_value(status, bytes)
      [] via = "post_multipart_value" -> post_multipart_value(status, bytes)
      [] via = "post_json_file" -> post_json_file(status, header, bytes)

\* ------------------------------------------------------------------ state
\* The dispatches that may be in flight at once.
Tasks == {"t1", "t2"}

VARIABLES
    tools,          \* SiyuanServer.tools: the listed tool names, in table order
    tool_handlers,  \* SiyuanServer.tool_handlers: name -> [endpoint, kind]
    pc,             \* per task: "idle", "reading", "sending", "body", "done"
    call,           \* per task: the [name, args] handle_tool_call was given
    form,           \* per task: the multipart form built so far
    toRead,         \* per task: the local paths still to read, in order
    reads,          \* per task: the local reads made so far, [path, ok] each
    requests,       \* per task: the HTTP requests issued so far
    resp,           \* per task: the response received so far
    result          \* per task: None, or Some(Ok(value)) / Some(Err(error))

vars == <<tools, tool_handlers, pc, call, form, toRead, reads, requests, resp, result>>
server == <<tools, tool_handlers>>

NoCall == [name |-> "", args |-> JNull]
NoHeader == [present |-> FALSE, visible |-> FALSE, value |-> ""]
NoResp == [status |-> 0, header |-> NoHeader, received |-> FALSE, bytes |-> <<>>]

Init ==
    LET srv == SiyuanServer_new(1, [tools |-> <<>>, tool_handlers |-> EmptyMap])
    IN  /\ tools = srv.tools
        /\ tool_handlers = srv.tool_handlers
        /\ pc = [t \in Tasks |-> "idle"]
        /\ call = [t \in Tasks |-> NoCall]
        /\ form = [t \in Tasks |-> <<>>]
        /\ toRead = [t \in Tasks |-> <<>>]
        /\ reads = [t \in Tasks |-> <<>>]
        /\ requests = [t \in Tasks |-> <<>>]
        /\ resp = [t \in Tasks |-> NoResp]
        /\ result = [t \in Tasks |-> None]

\* list_tools answers with a clone of `tools`: the listed names, in table order.
list_tools == tools

\* ---------------------------------------------------------------- actions
\* The dispatch ending with its result kept in one slot all dispatches share.
Finish_Shared(t, r) ==
    /\ pc' = [pc EXCEPT ![t] = "done"]
    /\ result' = [u \in Tasks |-> Some(r)]

\* The dispatch ends with a result or an error.
Finish(t, r) ==
    /\ pc' = [pc EXCEPT ![t] = "done"]
    /\ result' = [result EXCEPT ![t] = Some(r)]

\* The dispatch follows the plan its handler has reached.
Follow(t, plan) ==
    CASE plan.step = "fail" ->
            /\ Finish(t, plan.err)
            /\ UNCHANGED <<form, toRead, requests>>
      [] plan.step = "read" ->
            /\ pc' = [pc EXCEPT ![t] = "reading"]
            /\ form' = [form EXCEPT ![t] = plan.form]
            /\ toRead' = [toRead EXCEPT ![t] = plan.files]
            /\ UNCHANGED <<requests, result>>
      [] plan.step = "send" ->
            /\ pc' = [pc EXCEPT ![t] = "sending"]
            /\ requests' = [requests EXCEPT ![t] = Append(@, plan.request)]
            /\ form' = [form EXCEPT ![t] = IF plan.request.encoding = "multipart"
                                           THEN plan.request.body ELSE @]
            /\ toRead' = [toRead EXCEPT ![t] = <<>>]
            /\ UNCHANGED result

\* handle_tool_call taking the handler out of the registry (HashMap::remove
\* for HashMap::get).
Call_Take(t, name, args) ==
    /\ pc[t] = "idle"
    /\ call' = [call EXCEPT ![t] = [name |-> name, args |-> args]]
    /\ Follow(t, handle_tool_call(tool_handlers, name, args))
    /\ tool_handlers' = [k \in DOMAIN tool_handlers \ {name} |-> tool_handlers[k]]
    /\ UNCHANGED <<tools, reads, resp>>

\* handle_tool_call is entered with (name, args) and runs to its first await:
\* an error, the first local read, or the POST.  call_tool enters it with an
\* object or null; its contract is modelled for every JSON value it accepts.
Call(t, name, args) ==
    /\ pc[t] = "idle"
    /\ call' = [call EXCEPT ![t] = [name |-> name, args |-> args]]
    /\ Follow(t, handle_tool_call(tool_handlers, name, args))
    /\ UNCHANGED <<server, reads, resp>>

\* tokio::fs::read of the next path returns: file_part fails the dispatch or
\* the part joins the form under the handler's field name; after the last
\* read the form is posted.
ReadFile(t, read) ==
    /\ pc[t] = "reading"
    /\ LET path == Head(toRead[t])
           tool == tool_handlers[call[t].name]
           field == IF tool.kind = "AssetUpload" THEN "file[]" ELSE "file"
           part == file_part(path, read)
       IN  /\ reads' = [reads EXCEPT ![t] = Append(@, [path |-> path, ok |-> read.ok])]
           /\ IF ~part.ok
              THEN Follow(t, PlanFail(part))
              ELSE Follow(t, AfterReads(tool.endpoint, FormPart(form[t], field, part.v),
                                        Tail(toRead[t]), field))
    /\ UNCHANGED <<server, call, resp>>

\* send().await with no timeout set on the client: a request that meets a
\* transport error, the timeout included, goes on waiting for its response.
HttpRespond_NoTimeout(t, sent) ==
    /\ pc[t] = "sending"
    /\ IF ~sent.ok
       THEN UNCHANGED <<pc, result, resp>>
       ELSE /\ pc' = [pc EXCEPT ![t] = "body"]
            /\ resp' = [resp EXCEPT ![t] = [status |-> sent.v.status, header |-> sent.v.header,
                                            received |-> FALSE, bytes |-> <<>>]]
            /\ UNCHANGED result
    /\ UNCHANGED <<server, call, form, toRead, reads, requests>>

\* send().await posting the request a second time after a transport error.
HttpRespond_Retry(t, sent) ==
    /\ pc[t] = "sending"
    /\ IF ~sent.ok
       THEN IF Len(requests[t]) < 2
            THEN /\ requests' = [requests EXCEPT ![t] = Append(@, @[Len(@)])]
                 /\ UNCHANGED <<pc, result, resp>>
            ELSE /\ Finish(t, Err(internal_error(sent.message)))
                 /\ UNCHANGED <<resp, requests>>
       ELSE /\ pc' = [pc EXCEPT ![t] = "body"]
            /\ resp' = [resp EXCEPT ![t] = [status |-> sent.v.status, header |-> sent.v.header,
                                            received |-> FALSE, bytes |-> <<>>]]
            /\ UNCHANGED <<result, requests>>
    /\ UNCHANGED <<server, call, form, toRead, reads>>

\* send().await returns: a transport error (connect, timeout, TLS) fails the
\* dispatch, else the status line and the headers are in.
HttpRespond(t, sent) ==
    /\ pc[t] = "sending"
    /\ IF ~sent.ok
       THEN /\ Finish(t, Err(internal_error(sent.message)))
            /\ UNCHANGED resp
       ELSE /\ pc' = [pc EXCEPT ![t] = "body"]
            /\ resp' = [resp EXCEPT ![t] = [status |-> sent.v.status, header |-> sent.v.header,
                                            received |-> FALSE, bytes |-> <<>>]]
            /\ UNCHANGED result
    /\ UNCHANGED <<server, call, form, toRead, reads, requests>>

\* text().await / bytes().await returns: an error fails the dispatch, else the
\* client method normalises the response into the dispatch's result.
HttpBody(t, body) ==
    /\ pc[t] = "body"
    /\ IF ~body.ok
       THEN /\ Finish(t, Err(internal_error(body.message)))
            /\ UNCHANGED resp
       ELSE /\ resp' = [resp EXCEPT ![t].received = TRUE, ![t].bytes = body.v]
            /\ Finish(t, Normalise(requests[t][Len(requests[t])].via,
                                   resp[t].status, resp[t].header, body.v))
    /\ UNCHANGED <<server, call, form, toRead, reads, requests>>

\* call_tool returns the result to the protocol adapter; the task is over.
Return(t) ==
    /\ pc[t] = "done"
    /\ pc' = [pc EXCEPT ![t] = "idle"]
    /\ call' = [call EXCEPT ![t] = NoCall]
    /\ form' = [form EXCEPT ![t] = <<>>]
    /\ toRead' = [toRead EXCEPT ![t] = <<>>]
    /\ reads' = [reads EXCEPT ![t] = <<>>]
    /\ requests' = [requests EXCEPT ![t] = <<>>]
    /\ resp' = [resp EXCEPT ![t] = NoResp]
    /\ result' = [result EXCEPT ![t] = None]
    /\ UNCHANGED server

\* ----------------------------------------------------------------- inputs
\* All sequences over S of length at most n.
RECURSIVE SeqsUpTo(_, _)
SeqsUpTo(S, n) ==
    IF n = 0 THEN {<<>>}
    ELSE LET shorter == SeqsUpTo(S, n - 1)
         IN  shorter \cup {Append(s, x) : s \in shorter, x \in S}

\* The JSON objects whose keys are among DOMAIN C, each key k holding one of C[k].
RECURSIVE MapsOver(_, _)
MapsOver(C, keys) ==
    IF keys = {} THEN {EmptyMap}
    ELSE LET k == CHOOSE x \in keys : TRUE
             rest == MapsOver(C, keys \ {k})
         IN  rest \cup {MapInsert(m, k, x) : m \in rest, x \in C[k]}

ObjectsOver(C) == {JObj(m) : m \in MapsOver(C, DOMAIN C)}

\* Tool names a caller sends: one tool of each kind, two Json tools, and two
\* names the table does not hold.
CallNames == {"siyuan_sql_query", "siyuan_notebook_ls", "siyuan_asset_upload",
              "siyuan_file_put", "siyuan_file_get", "siyuan_unknown", ""}

FileEntryVals == {JStr("/tmp/a.png"), JStr("/tmp/b.txt"), JNum(123)}

PutFileObjects ==
    ObjectsOver([path |-> {JStr("/data/a.txt"), JNum(5)},
                 is_dir |-> {JBool(TRUE), JBool(FALSE), JStr("true")},
                 mod_time |-> {JNum(1700000000), JNum(0), JNum(-1), JFloat("1.5")},
                 file_path |-> {JStr("/tmp/a.png"), JNum(7)}])

AssetObjects ==
    ObjectsOver([assets_dir_path |-> {JStr("/assets/sub/"), JNum(1)},
                 files |-> {JArr(a) : a \in SeqsUpTo(FileEntryVals, MaxFiles)}
                           \cup {JStr("/tmp/a.png")}])

SqlArgs == JObj(MapInsert(EmptyMap, "stmt", JStr("SELECT 1")))

NonObjectArgs == {JNull, JStr("a string"), JNum(42), JBool(TRUE), JArr(<<JStr("x")>>)}

ArgValues == NonObjectArgs \cup PutFileObjects \cup AssetObjects \cup {SqlArgs}

\* What tokio::fs::read may return.
ReadOutcomes ==
    {Ok(<<137, 80>>), Ok(<<>>), Err(internal_error("No such file or directory (os error 2)"))}

\* What send().await may return.
SendErrors == {Err(internal_error("error sending request")), Err(internal_error("operation timed out"))}
Heads(statuses, headers) == {Ok([status |-> s, header |-> h]) : s \in statuses, h \in headers}

\* What text().await / bytes().await may return.
BodyErrors == {Err(internal_error("error decoding response body"))}
Bodies(B) == {Ok(b) : b \in B}

JsonHeader == [present |-> TRUE, visible |-> TRUE, value |-> "application/json"]
OpaqueHeader == [present |-> TRUE, visible |-> FALSE, value |-> ""]

\* {"error":"x"}
ErrorBody == <<123, 34, 101, 114, 114, 111, 114, 34, 58, 34, 120, 34, 125>>

\* NUL, '"', '1', '{', '}' and the byte 0xFF.
BodyAlphabet == {0, 34, 49, 123, 125, 255}

\* ---------------------------------------------------------- specifications
\* Spec: one dispatch at a time, the arguments drawn widely, the backend's
\* answers from a few.
SpecStatuses == {200, 404}
SpecHeaders == {NoHeader}
SpecBodies == {<<>>, <<123, 125>>}

Next ==
    \E t \in {"t1"} :
        \/ \E name \in CallNames, args \in ArgValues : Call(t, name, args)
        \/ \E read \in ReadOutcomes : ReadFile(t, read)
        \/ \E sent \in SendErrors \cup Heads(SpecStatuses, SpecHeaders) : HttpRespond(t, sent)
        \/ \E body \in BodyErrors \cup Bodies(SpecBodies) : HttpBody(t, body)
        \/ Return(t)

Spec == Init /\ [][Next]_vars

\* SpecBackend: one dispatch at a time, a few calls that reach the backend,
\* its answers drawn widely.
PathArgs == JObj(MapInsert(EmptyMap, "path", JStr("/data/a.txt")))
BackendCalls ==
    {<<"siyuan_sql_query", SqlArgs>>,
     <<"siyuan_file_get", PathArgs>>,
     <<"siyuan_file_get", SqlArgs>>,
     <<"siyuan_file_put", JObj(MapInsert(PathArgs.o, "is_dir", JBool(TRUE)))>>,
     <<"siyuan_file_put", JObj(MapInsert(PathArgs.o, "file_path", JStr("/tmp/a.png")))>>}
BackendStatuses == {200, 299, 300, 404}
BackendHeaders == {NoHeader, JsonHeader, OpaqueHeader}
BackendBodies == SeqsUpTo(BodyAlphabet, MaxBodyLen) \cup {ErrorBody}

NextBackend ==
    \E t \in {"t1"} :
        \/ \E c \in BackendCalls : Call(t, c[1], c[2])
        \/ \E read \in ReadOutcomes : ReadFile(t, read)
        \/ \E sent \in SendErrors \cup Heads(BackendStatuses, BackendHeaders) : HttpRespond(t, sent)
        \/ \E body \in BodyErrors \cup Bodies(BackendBodies) : HttpBody(t, body)
        \/ Return(t)

SpecBackend == Init /\ [][NextBackend]_vars

\* SpecConc: the dispatches of Tasks in flight at once, their steps
\* interleaved in every order (call_tool clones the server into one future
\* per call); a few calls, one of each kind and an unknown name.
AssetArgs == JObj(MapInsert(EmptyMap, "files", JArr(<<JStr("/tmp/a.png"), JStr("/tmp/b.txt")>>)))
ConcCalls ==
    {<<"siyuan_sql_query", SqlArgs>>,
     <<"siyuan_file_get", PathArgs>>,
     <<"siyuan_asset_upload", AssetArgs>>,
     <<"siyuan_file_put", JObj(MapInsert(PathArgs.o, "file_path", JStr("/tmp/a.png")))>>,
     <<"siyuan_unknown", SqlArgs>>}

NextConc ==
    \E t \in Tasks :
        \/ \E c \in ConcCalls : Call(t, c[1], c[2])
        \/ \E read \in ReadOutcomes : ReadFile(t, read)
        \/ \E sent \in SendErrors \cup Heads(SpecStatuses, SpecHeaders) : HttpRespond(t, sent)
        \/ \E body \in BodyErrors \cup Bodies(SpecBodies) : HttpBody(t, body)
        \/ Return(t)

SpecConc == Init /\ [][NextConc]_vars

\* What the client's timeout (Client::builder().timeout) turns a call that
\* does not complete in time into: an error of send(), or of the body read.
SendTimeout == Err(internal_error("operation timed out"))
BodyTimeout == Err(internal_error("error decoding response body"))

\* The timeout of task t's HTTP call fires.
Timeout(t) == HttpRespond(t, SendTimeout) \/ HttpBody(t, BodyTimeout)

\* SpecLive: SpecConc with the progress the runtime gives.  The backend owes
\* no answer, but the timeout fires on a call left waiting, and a read of a
\* local file returns.
SpecLive ==
    /\ Init
    /\ [][NextConc]_vars
    /\ \A t \in Tasks :
          /\ WF_vars(Timeout(t))
          /\ WF_vars(\E read \in ReadOutcomes : ReadFile(t, read))

\* ------------------------------------------------------ reading the claims
\* The names of the tool table, and the table's entry of a name.
TableNames == {TOOL_SPECS[i].name : i \in 1..Len(TOOL_SPECS)}
TableEntry(name) == TOOL_SPECS[CHOOSE i \in 1..Len(TOOL_SPECS) : TOOL_SPECS[i].name = name]
HasKind(name, kind) == name \in TableNames /\ TableEntry(name).kind = kind

Started(t) == pc[t] # "idle"
Failed(t) == result[t].some /\ ~result[t].v.ok
ValidationError(t) == Failed(t) /\ result[t].v.code = "invalid_params"
Succeeded(t) == result[t].some /\ result[t].v.ok

\* The argument object holds key k with a string / a boolean of value b.
IsObject(args) == args.t = "obj"
HasString(args, k) == IsObject(args) /\ k \in DOMAIN args.o /\ args.o[k].t = "str"
HasBool(args, k, b) == IsObject(args) /\ k \in DOMAIN args.o /\ args.o[k] = JBool(b)
Lacks(args, k) == args.t = "null" \/ (IsObject(args) /\ k \notin DOMAIN args.o)

\* C1: a dispatch of a name the tool table does not hold ends at once with the
\* invalid_params error "unknown tool: <name>", whatever its arguments, having
\* issued no HTTP request and read no local file.
C1_UnknownToolRejected ==
    \A t \in Tasks :
        (Started(t) /\ call[t].name \notin TableNames) =>
            /\ pc[t] = "done"
            /\ result[t] = Some(Err(invalid_params("unknown tool: " \o call[t].name)))
            /\ requests[t] = <<>>
            /\ reads[t] = <<>>

C1_Witness ==
    \E t \in Tasks :
        /\ pc[t] = "done"
        /\ call[t].name = "siyuan_unknown"
        /\ IsObject(call[t].args)
        /\ ValidationError(t)

\* C2: a dispatch whose result is an invalid_params error has issued no HTTP
\* request, whatever its tool and arguments.
C2_ValidationBeforeHttp ==
    \A t \in Tasks : ValidationError(t) => requests[t] = <<>>

C2_Witness ==
    \E t \in Tasks :
        /\ ValidationError(t)
        /\ HasKind(call[t].name, "PutFile")
        /\ HasString(call[t].args, "path")
        /\ requests[t] = <<>>

\* C3: a Json tool given arguments that are neither null nor an object ends at
\* once with the invalid_params error "arguments must be a JSON object" and
\* issues no HTTP request.
C3_JsonRejectsNonObject ==
    \A t \in Tasks :
        (Started(t) /\ HasKind(call[t].name, "Json") /\ call[t].args.t \notin {"null", "obj"}) =>
            /\ pc[t] = "done"
            /\ result[t] = Some(Err(invalid_params("arguments must be a JSON object")))
            /\ requests[t] = <<>>

C3_Witness ==
    \E t \in Tasks :
        /\ pc[t] = "done"
        /\ HasKind(call[t].name, "Json")
        /\ call[t].args = JStr("a string")
        /\ ValidationError(t)

\* C4: a Json tool given null or an object issues exactly one request, a JSON
\* POST to its table entry's endpoint, whose body is the argument object
\* unchanged, or the empty object for null; the SQL tool given
\* {"stmt": "SELECT 1"} posts that object to /api/query/sql.
C4_JsonBodyVerbatim ==
    \A t \in Tasks :
        (Started(t) /\ HasKind(call[t].name, "Json") /\ call[t].args.t \in {"null", "obj"}) =>
            /\ Len(requests[t]) = 1
            /\ requests[t][1].encoding = "json"
            /\ requests[t][1].endpoint = TableEntry(call[t].name).endpoint
            /\ requests[t][1].body = (IF call[t].args.t = "null" THEN JObj(EmptyMap) ELSE call[t].args)
            /\ (call[t].name = "siyuan_sql_query" /\ call[t].args = SqlArgs) =>
                   /\ requests[t][1].endpoint = "/api/query/sql"
                   /\ requests[t][1].body = JObj(MapInsert(EmptyMap, "stmt", JStr("SELECT 1")))

C4_Witness ==
    \E t \in Tasks :
        /\ pc[t] = "done"
        /\ HasKind(call[t].name, "Json")
        /\ call[t].args = JNull
        /\ Len(requests[t]) = 1
        /\ requests[t][1].body = JObj(EmptyMap)
        /\ Succeeded(t)

\* C5: a PutFile tool given a `path` string and `is_dir` = true reads no local
\* file and issues exactly one request, a multipart POST whose parts are all
\* text fields, with or without `file_path`.
C5_DirectoryNeedsNoFile ==
    \A t \in Tasks :
        (/\ Started(t)
         /\ HasKind(call[t].name, "PutFile")
         /\ HasString(call[t].args, "path")
         /\ HasBool(call[t].args, "is_dir", TRUE)) =>
            /\ reads[t] = <<>>
            /\ Len(requests[t]) = 1
            /\ requests[t][1].encoding = "multipart"
            /\ \A i \in 1..Len(requests[t][1].body) : requests[t][1].body[i].kind = "text"

C5_Witness ==
    \E t \in Tasks :
        /\ pc[t] = "done"
        /\ HasKind(call[t].name, "PutFile")
        /\ HasString(call[t].args, "path")
        /\ HasBool(call[t].args, "is_dir", TRUE)
        /\ HasString(call[t].args, "file_path")
        /\ Succeeded(t)
        /\ Len(requests[t]) = 1

\* C6: a PutFile tool given a `path` string, `is_dir` absent or false and no
\* string `file_path` ends at once with an invalid_params error, having read
\* no local file and issued no HTTP request.
C6_FileUploadNeedsFilePath ==
    \A t \in Tasks :
        (/\ Started(t)
         /\ HasKind(call[t].name, "PutFile")
         /\ HasString(call[t].args, "path")
         /\ (Lacks(call[t].args, "is_dir") \/ HasBool(call[t].args, "is_dir", FALSE))
         /\ ~HasString(call[t].args, "file_path")) =>
            /\ pc[t] = "done"
            /\ ValidationError(t)
            /\ reads[t] = <<>>
            /\ requests[t] = <<>>

C6_Witness ==
    \E t \in Tasks :
        /\ pc[t] = "done"
        /\ HasKind(call[t].name, "PutFile")
        /\ HasString(call[t].args, "path")
        /\ HasBool(call[t].args, "is_dir", FALSE)
        /\ "file_path" \in DOMAIN call[t].args.o
        /\ call[t].args.o["file_path"].t = "num"
        /\ ValidationError(t)

\* Standard base64 as RFC 4648 section 4 defines it, read off the bits: the
\* bytes' bits most significant first, zero bits added up to a multiple of
\* six, each six bits one symbol of A-Z a-z 0-9 + /, then '=' up to a multiple
\* of four symbols.
RECURSIVE Pow2(_)
Pow2(n) == IF n = 0 THEN 1 ELSE 2 * Pow2(n - 1)

BitAt(bytes, k) ==
    IF k \div 8 < Len(bytes) THEN (bytes[(k \div 8) + 1] \div Pow2(7 - (k % 8))) % 2 ELSE 0

Sextet(bytes, j) ==
    BitAt(bytes, 6 * j) * 32 + BitAt(bytes, 6 * j + 1) * 16 + BitAt(bytes, 6 * j + 2) * 8
    + BitAt(bytes, 6 * j + 3) * 4 + BitAt(bytes, 6 * j + 4) * 2 + BitAt(bytes, 6 * j + 5)

Base64Symbol(n) ==
    IF n < 26 THEN CharOf(65 + n)
    ELSE IF n < 52 THEN CharOf(97 + (n - 26))
    ELSE IF n < 62 THEN CharOf(48 + (n - 52))
    ELSE IF n = 62 THEN "+" ELSE "/"

RECURSIVE StdBase64From(_, _)
StdBase64From(bytes, j) ==
    IF j >= 4 * ((Len(bytes) + 2) \div 3) THEN ""
    ELSE (IF j < (8 * Len(bytes) + 5) \div 6 THEN Base64Symbol(Sextet(bytes, j)) ELSE "=")
         \o StdBase64From(bytes, j + 1)

StdBase64(bytes) == StdBase64From(bytes, 0)

\* The value is the object {status, content_type, body_base64} of the response
\* (status, header, bytes): the status as a number, the header's text or null,
\* and the standard base64 of the bytes.
IsDownloadWrapper(x, status, header, bytes) ==
    /\ x.t = "obj"
    /\ DOMAIN x.o = {"status", "content_type", "body_base64"}
    /\ x.o["status"] = JNum(status)
    /\ x.o["content_type"] \in {JNull, JStr(header.value)}
    /\ x.o["body_base64"] = JStr(StdBase64(bytes))

\* The response of task t is in, body and all.
Received(t) == pc[t] = "done" /\ resp[t].received
SuccessStatus(t) == resp[t].status \in 200..299

\* C7: a GetFile dispatch that received a 2xx response with body bytes B
\* returns the object {status, content_type, body_base64} with body_base64 the
\* standard base64 of B, also when B is JSON text.
C7_DownloadSuccessIsBase64 ==
    \A t \in Tasks :
        (HasKind(call[t].name, "GetFile") /\ Received(t) /\ SuccessStatus(t)) =>
            /\ Succeeded(t)
            /\ IsDownloadWrapper(result[t].v.v, resp[t].status, resp[t].header, resp[t].bytes)

\* 200 with the body {} : the result wraps "e30=".
C7_Witness ==
    \E t \in Tasks :
        /\ HasKind(call[t].name, "GetFile")
        /\ Received(t)
        /\ resp[t].status = 200
        /\ resp[t].bytes = <<123, 125>>
        /\ Succeeded(t)
        /\ result[t].v.v.o["body_base64"] = JStr("e30=")

\* C8: a GetFile dispatch that received a response outside 2xx with its body
\* returns a value, not an error: the body's JSON value when the body is JSON
\* (a 404 with {"error":"x"} gives that object), else the
\* {status, content_type, body_base64} object of the raw bytes.
C8_DownloadFailurePassesJson ==
    \A t \in Tasks :
        (HasKind(call[t].name, "GetFile") /\ Received(t) /\ ~SuccessStatus(t)) =>
            /\ Succeeded(t)
            /\ IF from_slice(resp[t].bytes).some
               THEN result[t].v.v = from_slice(resp[t].bytes).v
               ELSE IsDownloadWrapper(result[t].v.v, resp[t].status, resp[t].header, resp[t].bytes)
            /\ resp[t].bytes = ErrorBody =>
                   result[t].v.v = JObj(MapInsert(EmptyMap, "error", JStr("x")))
            /\ resp[t].bytes \in {<<>>, <<255>>, <<123>>, <<34, 255, 34>>} =>
                   result[t].v.v.t = "obj" /\ "body_base64" \in DOMAIN result[t].v.v.o
            /\ resp[t].bytes \in {<<123, 125>>, <<49>>, <<34, 34>>} =>
                   result[t].v.v \in {JObj(EmptyMap), JNum(1), JStr("")}

\* 404 with the body {"error":"x"}.
C8_Witness ==
    \E t \in Tasks :
        /\ HasKind(call[t].name, "GetFile")
        /\ Received(t)
        /\ resp[t].status = 404
        /\ resp[t].bytes = ErrorBody
        /\ Succeeded(t)
        /\ result[t].v.v = JObj(MapInsert(EmptyMap, "error", JStr("x")))

\* `files` is missing, is no array, or holds an entry that is no string.
BadFiles(args) ==
    \/ Lacks(args, "files")
    \/ /\ IsObject(args)
       /\ "files" \in DOMAIN args.o
       /\ \/ args.o["files"].t # "arr"
          \/ \E i \in 1..Len(args.o["files"].a) : args.o["files"].a[i].t # "str"

GoodFiles(args) ==
    /\ IsObject(args)
    /\ "files" \in DOMAIN args.o
    /\ args.o["files"].t = "arr"
    /\ \A i \in 1..Len(args.o["files"].a) : args.o["files"].a[i].t = "str"

\* C9: an AssetUpload tool whose `files` is missing, is no array or holds an
\* entry that is no string, at whatever position, ends at once with an
\* invalid_params error, having read no local file and issued no HTTP request.
C9_AssetFilesValidatedFirst ==
    \A t \in Tasks :
        (Started(t) /\ HasKind(call[t].name, "AssetUpload") /\ BadFiles(call[t].args)) =>
            /\ pc[t] = "done"
            /\ ValidationError(t)
            /\ reads[t] = <<>>
            /\ requests[t] = <<>>

\* files = ["/tmp/a.png", 123]: a string entry precedes the bad one.
C9_Witness ==
    \E t \in Tasks :
        /\ pc[t] = "done"
        /\ HasKind(call[t].name, "AssetUpload")
        /\ IsObject(call[t].args)
        /\ "files" \in DOMAIN call[t].args.o
        /\ call[t].args.o["files"] = JArr(<<JStr("/tmp/a.png"), JNum(123)>>)
        /\ ValidationError(t)
        /\ reads[t] = <<>>

PartsOfKind(body, kind) == {i \in 1..Len(body) : body[i].kind = kind}

\* C10: an AssetUpload tool given an array of strings as `files`, once every
\* file is read, issues one multipart request holding exactly one text field,
\* assetsDirPath, whose value is the `assets_dir_path` string given, or /assets/
\* when none is given, and one file part per entry of `files`, all under one
\* field name.
C10_AssetFormShape ==
    \A t \in Tasks :
        (Started(t) /\ HasKind(call[t].name, "AssetUpload") /\ GoodFiles(call[t].args)) =>
            LET files == call[t].args.o["files"].a
                allRead == /\ Len(reads[t]) = Len(files)
                           /\ \A i \in 1..Len(reads[t]) : reads[t][i].ok
            IN  /\ allRead <=> Len(requests[t]) = 1
                /\ Len(requests[t]) <= 1
                /\ Len(requests[t]) = 1 =>
                      LET body == requests[t][1].body
                          texts == PartsOfKind(body, "text")
                          parts == PartsOfKind(body, "file")
                      IN  /\ requests[t][1].encoding = "multipart"
                          /\ Cardinality(texts) = 1
                          /\ \A i \in texts :
                                /\ body[i].name = "assetsDirPath"
                                /\ HasString(call[t].args, "assets_dir_path") =>
                                       body[i].value = call[t].args.o["assets_dir_path"].s
                                /\ Lacks(call[t].args, "assets_dir_path") =>
                                       body[i].value = "/assets/"
                          /\ Cardinality(parts) = Len(files)
                          /\ \A i, j \in parts : body[i].name = body[j].name

\* Two files read, no assets_dir_path given: the form is posted with /assets/.
C10_Witness ==
    \E t \in Tasks :
        /\ pc[t] = "done"
        /\ HasKind(call[t].name, "AssetUpload")
        /\ GoodFiles(call[t].args)
        /\ Lacks(call[t].args, "assets_dir_path")
        /\ Len(call[t].args.o["files"].a) = 2
        /\ Len(requests[t]) = 1
        /\ Cardinality(PartsOfKind(requests[t][1].body, "file")) = 2
        /\ requests[t][1].body[1].value = "/assets/"
        /\ Succeeded(t)

\* The one request of task t went out through post_json_value or
\* post_multipart_value.
ViaValue(t) ==
    /\ Len(requests[t]) = 1
    /\ requests[t][1].via \in {"post_json_value", "post_multipart_value"}

\* send().await returned Ok for task t: the status line and the headers are in.
SendSucceeded(t) == resp[t].status # 0

\* The value is the object {status, body} of the status and the text.
IsStatusBody(x, status, text) ==
    /\ x.t = "obj"
    /\ DOMAIN x.o = {"status", "body"}
    /\ x.o["status"] = JNum(status)
    /\ x.o["body"] = JStr(text)

\* C11 as stated: a post_json_value / post_multipart_value dispatch whose
\* request was sent successfully never ends with an error.
C11_SentNeverFails ==
    \A t \in Tasks :
        (ViaValue(t) /\ SendSucceeded(t) /\ pc[t] = "done") => Succeeded(t)

\* C11, amended: a post_json_value / post_multipart_value dispatch whose
\* response was received in full, body included, never ends with an error: it
\* returns the body's JSON value when the body's text parses as JSON, whatever
\* the status, else the object {status, body: <the text>}; a dispatch whose
\* send succeeded and whose body could not be read ends with an internal_error.
C11_ReceivedNeverFails ==
    \A t \in Tasks :
        /\ (ViaValue(t) /\ Received(t)) =>
              LET text == DecodeLossy(resp[t].bytes)
              IN  /\ Succeeded(t)
                  /\ IF from_str(text).some
                     THEN result[t].v.v = from_str(text).v
                     ELSE IsStatusBody(result[t].v.v, resp[t].status, StrOf(text))
                  /\ resp[t].bytes = ErrorBody =>
                         result[t].v.v = JObj(MapInsert(EmptyMap, "error", JStr("x")))
                  /\ resp[t].bytes = <<123, 125>> => result[t].v.v = JObj(EmptyMap)
                  /\ resp[t].bytes = <<>> => IsStatusBody(result[t].v.v, resp[t].status, "")
                  /\ resp[t].bytes = <<123>> => IsStatusBody(result[t].v.v, resp[t].status, "{")
        /\ (ViaValue(t) /\ SendSucceeded(t) /\ pc[t] = "done" /\ ~resp[t].received) =>
              /\ Failed(t)
              /\ result[t].v.code = "internal_error"

\* A 404 whose body is {"error":"x"} comes back as that object, and a 404
\* whose body is no JSON as {status: 404, body}.
C11_Witness ==
    \E t \in Tasks :
        /\ ViaValue(t)
        /\ Received(t)
        /\ resp[t].status = 404
        /\ resp[t].bytes = ErrorBody
        /\ result[t] = Some(Ok(JObj(MapInsert(EmptyMap, "error", JStr("x")))))

\* The dispatch of task t is over, its request was posted and no complete
\* response came back: send() or the read of the body failed (connect,
\* timeout, TLS).
TransportFailed(t) == pc[t] = "done" /\ requests[t] # <<>> /\ ~resp[t].received

RequiredFiles(name, args) ==
    IF HasKind(name, "AssetUpload") /\ GoodFiles(args)
    THEN [i \in 1..Len(args.o["files"].a) |-> args.o["files"].a[i].s]
    ELSE IF HasKind(name, "PutFile") /\ HasString(args, "file_path")
            /\ ~HasBool(args, "is_dir", TRUE)
    THEN <<args.o["file_path"].s>>
    ELSE <<>>

\* The texts of the OS errors a read may fail with.
ReadErrorTexts == {r.message : r \in {x \in ReadOutcomes : ~x.ok}}

\* C13: an upload dispatch (AssetUpload or PutFile) that has issued its HTTP
\* request has read every required local file, in order, each successfully;
\* a dispatch one of whose reads failed is over with the internal_error
\* "read file <path>: <OS error>" of that path, has read nothing after it and
\* has issued no HTTP request.
C13_ReadsBeforeRequest ==
    \A t \in Tasks :
        (Started(t) /\ (HasKind(call[t].name, "AssetUpload") \/ HasKind(call[t].name, "PutFile"))) =>
            /\ requests[t] # <<>> =>
                  /\ Len(reads[t]) = Len(RequiredFiles(call[t].name, call[t].args))
                  /\ \A i \in 1..Len(reads[t]) :
                        /\ reads[t][i].ok
                        /\ reads[t][i].path = RequiredFiles(call[t].name, call[t].args)[i]
            /\ \A i \in 1..Len(reads[t]) :
                  ~reads[t][i].ok =>
                      /\ i = Len(reads[t])
                      /\ pc[t] = "done"
                      /\ Failed(t)
                      /\ result[t].v.code = "internal_error"
                      /\ \E e \in ReadErrorTexts :
                            result[t].v.message = "read file " \o reads[t][i].path \o ": " \o e
                      /\ requests[t] = <<>>

\* files = ["/tmp/a.png", "/tmp/b.txt"]: the first is read, the second is not
\* there.
C13_Witness ==
    \E t \in Tasks :
        /\ HasKind(call[t].name, "AssetUpload")
        /\ reads[t] = <<[path |-> "/tmp/a.png", ok |-> TRUE], [path |-> "/tmp/b.txt", ok |-> FALSE]>>
        /\ pc[t] = "done"
        /\ result[t] = Some(Err(internal_error(
               "read file /tmp/b.txt: No such file or directory (os error 2)")))
        /\ requests[t] = <<>>

\* C14: whatever dispatches have run, succeeded or failed, and however their
\* steps interleaved, the registry is the one SiyuanServer::new built: the
\* same names are listed and registered, and every name still has the
\* endpoint and the kind of its table entry.
C14_RegistryUnchanged ==
    LET startup == SiyuanServer_new(1, [tools |-> <<>>, tool_handlers |-> EmptyMap])
    IN  /\ tools = startup.tools
        /\ tool_handlers = startup.tool_handlers
        /\ DOMAIN tool_handlers = TableNames
        /\ \A name \in TableNames :
              /\ tool_handlers[name].endpoint = TableEntry(name).endpoint
              /\ tool_handlers[name].kind = TableEntry(name).kind

\* Two dispatches in flight are over, one with a value and one with an error.
C14_Witness ==
    /\ pc["t1"] = "done"
    /\ pc["t2"] = "done"
    /\ Succeeded("t1")
    /\ Failed("t2")
    /\ call["t1"].name = call["t2"].name
    /\ tool_handlers[call["t1"].name] = [endpoint |-> "/api/query/sql", kind |-> "Json"]

\* handle_tool_call accepts the name: it does not answer "unknown tool".
Accepts(name) ==
    LET plan == handle_tool_call(tool_handlers, name, JNull)
    IN  ~(/\ plan.step = "fail"
          /\ plan.err.code = "invalid_params"
          /\ plan.err.message = "unknown tool: " \o name)

\* The client method each kind posts through.
ViaOfKind(kind) ==
    CASE kind = "Json" -> "post_json_value"
      [] kind = "GetFile" -> "post_json_file"
      [] OTHER -> "post_multipart_value"

\* C15: no two entries of the tool table share a name; the registry holds
\* exactly one handler per entry, under the entry's name and with the entry's
\* endpoint and kind; the names list_tools returns are exactly the names
\* handle_tool_call accepts; and a dispatch posts to the endpoint of its own
\* entry through the client method of its entry's kind.
C15_RegistryMatchesTable ==
    /\ \A i, j \in 1..Len(TOOL_SPECS) : TOOL_SPECS[i].name = TOOL_SPECS[j].name => i = j
    /\ Cardinality(DOMAIN tool_handlers) = Len(TOOL_SPECS)
    /\ Len(list_tools) = Len(TOOL_SPECS)
    /\ \A i \in 1..Len(TOOL_SPECS) :
          /\ TOOL_SPECS[i].name \in DOMAIN tool_handlers
          /\ tool_handlers[TOOL_SPECS[i].name] =
                 [endpoint |-> TOOL_SPECS[i].endpoint, kind |-> TOOL_SPECS[i].kind]
          /\ list_tools[i] = TOOL_SPECS[i].name
    /\ {list_tools[i] : i \in 1..Len(list_tools)} =
           {name \in TableNames \cup CallNames : Accepts(name)}
    /\ \A t \in Tasks :
          (call[t].name \in TableNames /\ requests[t] # <<>>) =>
              \E i \in 1..Len(TOOL_SPECS) :
                  /\ TOOL_SPECS[i].name = call[t].name
                  /\ requests[t][1].endpoint = TOOL_SPECS[i].endpoint
                  /\ requests[t][1].via = ViaOfKind(TOOL_SPECS[i].kind)

\* The download tool posts to its own entry's endpoint, and the registry
\* holds every entry of the table.
C15_Witness ==
    \E t \in Tasks :
        /\ call[t].name = "siyuan_file_get"
        /\ Len(requests[t]) = 1
        /\ requests[t][1].endpoint = "/api/file/getFile"
        /\ requests[t][1].via = "post_json_file"
        /\ Cardinality(DOMAIN tool_handlers) = Len(TOOL_SPECS)
        /\ "siyuan_system_current_time" \in DOMAIN tool_handlers
        /\ ~Accepts("siyuan_unknown")

\* The text fields of the form under the name, as a set of values.
TextValues(body, name) ==
    {body[i].value : i \in {k \in 1..Len(body) : body[k].kind = "text" /\ body[k].name = name}}
TextCount(body, name) ==
    Cardinality({k \in 1..Len(body) : body[k].kind = "text" /\ body[k].name = name})

\* `mod_time` is given as a non-negative integer.
HasU64(args, k) ==
    IsObject(args) /\ k \in DOMAIN args.o /\ args.o[k].t = "num" /\ args.o[k].n >= 0

\* The decimal text of the modification times the model draws.
ModTimeText(n) == IF n = 0 THEN "0" ELSE IF n = 1700000000 THEN "1700000000" ELSE "?"

\* C18: the form a PutFile dispatch posts holds one `path` text field with the
\* path given; an `isDir` text field exactly when `is_dir` is a boolean, with
\* the text true or false; a `modTime` text field exactly when `mod_time` is a
\* non-negative integer, with its decimal text.  An `is_dir` or `mod_time` of
\* another type never rejects the call by itself and counts as absent: without
\* a boolean true `is_dir`, a call with no string `file_path` is rejected.
C18_PutFileFormFields ==
    \A t \in Tasks :
        (Started(t) /\ HasKind(call[t].name, "PutFile") /\ HasString(call[t].args, "path")) =>
            LET args == call[t].args
            IN  /\ requests[t] # <<>> =>
                      LET body == requests[t][1].body
                      IN  /\ TextCount(body, "path") = 1
                          /\ TextValues(body, "path") = {args.o["path"].s}
                          /\ TextCount(body, "isDir") =
                                 (IF HasBool(args, "is_dir", TRUE) \/ HasBool(args, "is_dir", FALSE)
                                  THEN 1 ELSE 0)
                          /\ HasBool(args, "is_dir", TRUE) => TextValues(body, "isDir") = {"true"}
                          /\ HasBool(args, "is_dir", FALSE) => TextValues(body, "isDir") = {"false"}
                          /\ TextCount(body, "modTime") = (IF HasU64(args, "mod_time") THEN 1 ELSE 0)
                          /\ HasU64(args, "mod_time") =>
                                 TextValues(body, "modTime") = {ModTimeText(args.o["mod_time"].n)}
                          /\ \A i \in 1..Len(body) :
                                 body[i].kind = "text" => body[i].name \in {"path", "isDir", "modTime"}
                /\ (HasBool(args, "is_dir", TRUE) \/ HasString(args, "file_path")) =>
                      ~ValidationError(t)
                /\ (~HasBool(args, "is_dir", TRUE) /\ ~HasString(args, "file_path")) =>
                      /\ pc[t] = "done"
                      /\ ValidationError(t)
                      /\ requests[t] = <<>>

\* is_dir = "true" (a string) with a file_path and mod_time = 1700000000: the
\* file is read and the form carries modTime and no isDir.
C18_Witness ==
    \E t \in Tasks :
        /\ HasKind(call[t].name, "PutFile")
        /\ HasString(call[t].args, "path")
        /\ "is_dir" \in DOMAIN call[t].args.o
        /\ call[t].args.o["is_dir"] = JStr("true")
        /\ "mod_time" \in DOMAIN call[t].args.o
        /\ call[t].args.o["mod_time"] = JNum(1700000000)
        /\ Len(reads[t]) = 1
        /\ Len(requests[t]) = 1
        /\ TextValues(requests[t][1].body, "modTime") = {"1700000000"}
        /\ TextCount(requests[t][1].body, "isDir") = 0

\* The part of the state that belongs to the dispatch of task t.
TaskState(t) == <<pc[t], call[t], form[t], toRead[t], reads[t], requests[t], resp[t], result[t]>>

\* The dispatch of task t has posted its request: where it stands and what it
\* returns follow from its own response alone.
OwnAnswer(t) ==
    /\ Len(requests[t]) = 1
    /\ pc[t] \in {"sending", "body", "done"}
    /\ pc[t] = "sending" => resp[t] = NoResp /\ result[t] = None
    /\ pc[t] = "body" => SendSucceeded(t) /\ ~resp[t].received /\ result[t] = None
    /\ pc[t] = "done" =>
          IF resp[t].received
          THEN result[t] = Some(Normalise(requests[t][1].via, resp[t].status,
                                          resp[t].header, resp[t].bytes))
          ELSE \E e \in SendErrors \cup BodyErrors :
                  result[t] = Some(Err(internal_error(e.message)))

\* The dispatch of task t reads local files: its form, its request and its
\* result follow from its own arguments and its own reads alone.
OwnReads(t, plan) ==
    LET n == Len(reads[t])
        failed == n > 0 /\ ~reads[t][n].ok
        good == IF failed THEN n - 1 ELSE n
        base == Len(plan.form)
    IN  /\ n <= Len(plan.files)
        /\ \A i \in 1..n : reads[t][i].path = plan.files[i] /\ (i < n => reads[t][i].ok)
        /\ Len(form[t]) = base + good
        /\ SubSeq(form[t], 1, base) = plan.form
        /\ \A i \in 1..good :
              LET part == form[t][base + i]
                  name == Path_file_name(plan.files[i])
              IN  /\ part.kind = "file"
                  /\ part.name = plan.field
                  /\ part.file_name = (IF name.some THEN name.v ELSE "file")
                  /\ \E r \in ReadOutcomes : r.ok /\ part.bytes = r.v
        /\ IF failed
           THEN /\ pc[t] = "done"
                /\ requests[t] = <<>>
                /\ resp[t] = NoResp
                /\ \E r \in ReadOutcomes : ~r.ok /\ result[t] = Some(file_part(plan.files[n], r))
           ELSE IF n < Len(plan.files)
           THEN /\ pc[t] = "reading"
                /\ toRead[t] = SubSeq(plan.files, n + 1, Len(plan.files))
                /\ requests[t] = <<>>
                /\ resp[t] = NoResp
                /\ result[t] = None
           ELSE /\ requests[t] = <<MultipartRequest(tool_handlers[call[t].name].endpoint, form[t])>>
                /\ OwnAnswer(t)

\* The state of task t is what its own name, arguments, file reads and
\* backend response make it.
OwnOutcome(t) ==
    IF pc[t] = "idle"
    THEN TaskState(t) = <<"idle", NoCall, <<>>, <<>>, <<>>, <<>>, NoResp, None>>
    ELSE LET plan == handle_tool_call(tool_handlers, call[t].name, call[t].args)
         IN  CASE plan.step = "fail" ->
                     /\ pc[t] = "done"
                     /\ result[t] = Some(plan.err)
                     /\ reads[t] = <<>>
                     /\ requests[t] = <<>>
                     /\ resp[t] = NoResp
               [] plan.step = "send" ->
                     /\ reads[t] = <<>>
                     /\ requests[t] = <<plan.request>>
                     /\ OwnAnswer(t)
               [] plan.step = "read" -> OwnReads(t, plan)

\* C16: with two dispatches in flight and their steps interleaved in every
\* order, the request and the result of each dispatch are at every moment
\* those its own name, arguments, file reads and backend response determine,
\* whatever the other dispatch is doing or has returned; and every step
\* changes the state of one dispatch and leaves the other as it was.
C16_DispatchesIndependent ==
    /\ [](\A t \in Tasks : OwnOutcome(t))
    /\ [][\A t \in Tasks : TaskState(t)' # TaskState(t) =>
             \A u \in Tasks \ {t} : TaskState(u)' = TaskState(u)]_vars

\* The same SQL call twice: the second dispatch has its value while the first
\* still waits for its response.
C16_Witness ==
    /\ call["t1"] = call["t2"]
    /\ call["t1"].name = "siyuan_sql_query"
    /\ pc["t1"] = "sending"
    /\ pc["t2"] = "done"
    /\ Succeeded("t2")
    /\ result["t1"] = None

====
